---- MODULE Spec2Model ----
(***************************************************************************)
(* AFL pitch scraper (StatcastMain.py): key normalizer, recursive          *)
(* flattener, row builder and dataset assembler.                           *)
(*                                                                         *)
(* Text.  A Python str is a sequence of atoms: the atom "_" is one         *)
(* underscore character, every other atom is a maximal non-empty run of    *)
(* characters that are not underscores ("pitchData", "call", "0").  No two *)
(* word atoms are adjacent, so the representation of a str is unique and   *)
(* str.split("__") / "__".join() are computed character by character on    *)
(* the underscores.                                                        *)
(*                                                                         *)
(* JSON.  A value is a record [t, v] tagged by its kind: "null", "bool",   *)
(* "num", "str", "obj" (v: the sequence of <<key, value>> pairs in         *)
(* insertion order) and "arr" (v: the sequence of items).                  *)
(***************************************************************************)
EXTENDS Integers, Sequences, FiniteSets, TLC

VARIABLES
    nkey, nres, nres2, npc,        \* normalize_key: argument, result, result of the second call
    tree, out, fpc,                \* flatten_dict: argument, returned mapping
    rgame, rdata, rrows, rpc,      \* rows_from_game: game id, feed outcome, returned rows
    game_pks, fetched, all_rows, df, idx, pc   \* get_afl_data

vars == <<nkey, nres, nres2, npc, tree, out, fpc, rgame, rdata, rrows, rpc,
          game_pks, fetched, all_rows, df, idx, pc>>

normVars == <<nkey, nres, nres2, npc>>
flatVars == <<tree, out, fpc>>
rowVars  == <<rgame, rdata, rrows, rpc>>
dataVars == <<game_pks, fetched, all_rows, df, idx, pc>>

-----------------------------------------------------------------------------
(* Bounds *)

MaxKeyLen == 6

MaxNodes == 4

MaxGames == 2

MaxPlays == 2

MaxEvents == 3

-----------------------------------------------------------------------------
(* Text *)

U == "_"

sep == <<U, U>>

STRIP_TOKENS == {<<"details">>, <<"pitchData">>, <<"hitData">>, <<"breaks">>, <<"coordinates">>}

\* A str in canonical form: no two word atoms side by side.
IsStr(s) == \A i \in 1..(Len(s) - 1) : s[i] = U \/ s[i + 1] = U

\* key.split("__"): leftmost, non-overlapping occurrences of the separator;
\* cur is the segment being read, i the next atom.
RECURSIVE SplitFrom(_, _, _)
SplitFrom(s, i, cur) ==
    IF i > Len(s) THEN <<cur>>
    ELSE IF i < Len(s) /\ s[i] = U /\ s[i + 1] = U
         THEN <<cur>> \o SplitFrom(s, i + 2, <<>>)
         ELSE SplitFrom(s, i + 1, Append(cur, s[i]))

Split(s) == SplitFrom(s, 1, <<>>)

\* "__".join(parts)
RECURSIVE Join(_)
Join(parts) ==
    IF parts = <<>> THEN <<>>
    ELSE IF Len(parts) = 1 THEN parts[1]
    ELSE parts[1] \o sep \o Join(Tail(parts))

\* [p for p in ... if p not in STRIP_TOKENS and p != ""]
Kept(p) == p \notin STRIP_TOKENS /\ p # <<>>

\* normalize_key with the fallback dropped: an emptied key becomes "".
normalize_key_nofallback(key) ==
    Join(SelectSeq(Split(key), Kept))

\* normalize_key that strips only the first segment of the path.
normalize_key_firstonly(key) ==
    LET segs == Split(key)
        parts == IF Kept(segs[1]) THEN segs ELSE Tail(segs)
    IN  IF parts # <<>> THEN Join(parts) ELSE key

normalize_key(key) ==
    LET parts == SelectSeq(Split(key), Kept)
    IN  IF parts # <<>> THEN Join(parts) ELSE key

-----------------------------------------------------------------------------
(* JSON values and Python dicts *)

Null    == [t |-> "null", v |-> 0]
Bool(b) == [t |-> "bool", v |-> b]
Num(n)  == [t |-> "num", v |-> n]
Str(s)  == [t |-> "str", v |-> s]
Obj(ps) == [t |-> "obj", v |-> ps]
Arr(xs) == [t |-> "arr", v |-> xs]

\* None of Python and null of JSON are the same value.
None == Null

EmptyDict == Obj(<<>>)

isinstance_dict(x) == x.t = "obj"

isinstance_list(x) == x.t = "arr"

\* Python truth value: "if not data", "if not plays", "if not ev.get(...)", "x or {}"
Truthy(x) ==
    CASE x.t = "null" -> FALSE
      [] x.t = "bool" -> x.v
      [] x.t = "num"  -> x.v # 0
      [] x.t = "str"  -> x.v # ""
      [] OTHER        -> x.v # <<>>

\* "k in d" and d[k] for a dict d
HasKey(d, k) == \E j \in 1..Len(d.v) : d.v[j][1] = k

Item(d, k) == d.v[CHOOSE j \in 1..Len(d.v) : d.v[j][1] = k][2]

\* d.get(k, default)
Get(d, k, default) == IF HasKey(d, k) THEN Item(d, k) ELSE default

\* A Python dict used as a row or as flatten_dict's result: a function from
\* key to value.  a.update(b): the keys of b overwrite those of a.
NoEntries == [k \in {} |-> Null]

Update(a, b) ==
    [k \in DOMAIN a \cup DOMAIN b |-> IF k \in DOMAIN b THEN b[k] ELSE a[k]]

\* out[k] = v
SetItem(a, k, x) == Update(a, [j \in {k} |-> x])

\* f"{i}" for an int
FormatInt(i) == <<ToString(i)>>

-----------------------------------------------------------------------------
(* flatten_dict *)

\* flatten_dict(d, prefix): the entries of d's items from the j-th on are
\* written over acc, in iteration order.  ListFrom is the inner loop over
\* enumerate(v), from the i-th item (i is 1-based here, the index emitted is
\* i - 1).
RECURSIVE DictFrom(_, _, _, _), ListFrom(_, _, _, _)
DictFrom(d, prefix, j, acc) ==
    IF j > Len(d.v) THEN acc
    ELSE LET k   == d.v[j][1]
             val == d.v[j][2]
             key == IF prefix # <<>> THEN prefix \o sep \o k ELSE k
             nxt == IF isinstance_dict(val)
                        THEN Update(acc, DictFrom(val, key, 1, NoEntries))
                    ELSE IF isinstance_list(val)
                        THEN ListFrom(val, key, 1, acc)
                    ELSE SetItem(acc, normalize_key(key), val)
         IN  DictFrom(d, prefix, j + 1, nxt)

ListFrom(l, key, i, acc) ==
    IF i > Len(l.v) THEN acc
    ELSE LET item == l.v[i]
             ikey == key \o sep \o FormatInt(i - 1)
             nxt  == IF isinstance_dict(item)
                         THEN Update(acc, DictFrom(item, ikey, 1, NoEntries))
                     ELSE SetItem(acc, normalize_key(ikey), item)
         IN  ListFrom(l, key, i + 1, nxt)

\* "for k, v in (d or {}).items()"
flatten_dict(d, prefix) ==
    DictFrom(IF Truthy(d) THEN d ELSE EmptyDict, prefix, 1, NoEntries)

-----------------------------------------------------------------------------
(* safe_get, get_game_feed, rows_from_game *)

\* A key of one word, with no underscore in it
W(s) == <<s>>

k_game_id       == <<"game", U, "id">>
k_game_date     == <<"game", U, "date">>
k_venue_name    == <<"venue", U, "name">>
k_home_team     == <<"home", U, "team">>
k_away_team     == <<"away", U, "team">>
k_at_bat_index  == <<"at", U, "bat", U, "index">>
k_play_idx      == <<"play", U, "idx">>
k_inning        == W("inning")
k_is_top_inning == <<"is", U, "top", U, "inning">>
k_batter_id     == <<"batter", U, "id">>
k_batter_name   == <<"batter", U, "name">>
k_pitcher_id    == <<"pitcher", U, "id">>
k_pitcher_name  == <<"pitcher", U, "name">>
k_balls         == W("balls")
k_strikes       == W("strikes")
k_outs          == W("outs")
k_event_idx     == <<"event", U, "idx">>
k_pitch_uid     == <<"pitch", U, "uid">>

\* safe_get(d, path, default): path is a sequence of keys
RECURSIVE safe_get(_, _, _)
safe_get(d, path, default) ==
    IF path = <<>> THEN d
    ELSE IF isinstance_dict(d) /\ HasKey(d, Head(path))
         THEN safe_get(Item(d, Head(path)), Tail(path), default)
         ELSE default

\* str(x) inside an f-string, as the pieces of the text
Format(x) ==
    CASE x.t = "null" -> "None"
      [] x.t = "bool" -> IF x.v THEN "True" ELSE "False"
      [] x.t = "num"  -> ToString(x.v)
      [] OTHER        -> x.v

\* f"{game_pk}-{play.get('atBatIndex')}-{ev_idx}": a str value, kept as its pieces
pitch_uid(game_pk, play, ev_idx) ==
    [t |-> "text",
     v |-> <<ToString(game_pk), "-", Format(Get(play, W("atBatIndex"), None)), "-",
             ToString(ev_idx)>>]

\* What requests.get(url, timeout=30).json() does for one game: it raises
\* (exc, a network or parse failure) or returns the parsed JSON value val.
Raises(val) == [exc |-> TRUE, val |-> val]

Returns(val) == [exc |-> FALSE, val |-> val]

\* get_game_feed without the try/except: the failure propagates.
get_game_feed_nocatch(response) == response

\* try: return requests.get(...).json()  except Exception: return None
get_game_feed(response) ==
    IF response.exc THEN Returns(None) ELSE response

\* A pitch test that lets every sub-event through.
is_pitch_any(ev) == TRUE

\* "if not ev.get("isPitch"): continue"
is_pitch(ev) == Truthy(Get(ev, W("isPitch"), None))

\* about.get("inning"), count.get("balls"), ...: the value under "about" or
\* "count" is used as a dict without a test, so anything else (None, a str, a
\* list, a number) raises AttributeError while base_ctx is built.
base_ctx_raises(play) ==
    \/ ~isinstance_dict(Get(play, W("about"), EmptyDict))
    \/ ~isinstance_dict(Get(play, W("count"), EmptyDict))

base_ctx(game_pk, data, play, play_idx) ==
    LET about   == Get(play, W("about"), EmptyDict)
        matchup == Get(play, W("matchup"), EmptyDict)
        count   == Get(play, W("count"), EmptyDict)
    IN  (k_game_id :> Num(game_pk))
        @@ (k_game_date :> safe_get(data, <<W("gameData"), W("datetime"), W("officialDate")>>, None))
        @@ (k_venue_name :> safe_get(data, <<W("gameData"), W("venue"), W("name")>>, None))
        @@ (k_home_team :> safe_get(data, <<W("gameData"), W("teams"), W("home"), W("name")>>, None))
        @@ (k_away_team :> safe_get(data, <<W("gameData"), W("teams"), W("away"), W("name")>>, None))
        @@ (k_at_bat_index :> Get(play, W("atBatIndex"), None))
        @@ (k_play_idx :> Num(play_idx))
        @@ (k_inning :> Get(about, W("inning"), None))
        @@ (k_is_top_inning :> Get(about, W("isTopInning"), None))
        @@ (k_batter_id :> safe_get(matchup, <<W("batter"), W("id")>>, None))
        @@ (k_batter_name :> safe_get(matchup, <<W("batter"), W("fullName")>>, None))
        @@ (k_pitcher_id :> safe_get(matchup, <<W("pitcher"), W("id")>>, None))
        @@ (k_pitcher_name :> safe_get(matchup, <<W("pitcher"), W("fullName")>>, None))
        @@ (k_balls :> Get(count, W("balls"), None))
        @@ (k_strikes :> Get(count, W("strikes"), None))
        @@ (k_outs :> Get(count, W("outs"), None))

\* x or {}
OrEmptyDict(x) == IF Truthy(x) THEN x ELSE EmptyDict

\* The row of one pitch with the blocks written in the order hitData,
\* pitchData, details.
event_row_hitfirst(game_pk, ctx, play, ev, ev_idx) ==
    LET r0 == SetItem(ctx, k_event_idx, Num(ev_idx))
        r1 == SetItem(r0, k_pitch_uid, pitch_uid(game_pk, play, ev_idx))
        r2 == Update(r1, flatten_dict(OrEmptyDict(Get(ev, W("hitData"), None)), <<>>))
        r3 == Update(r2, flatten_dict(OrEmptyDict(Get(ev, W("pitchData"), None)), <<>>))
    IN  Update(r3, flatten_dict(OrEmptyDict(Get(ev, W("details"), None)), <<>>))

\* The row of one pitch: the context, event_idx, pitch_uid, then the three
\* flattened blocks written over it in the order details, pitchData, hitData.
event_row(game_pk, ctx, play, ev, ev_idx) ==
    LET r0 == SetItem(ctx, k_event_idx, Num(ev_idx))
        r1 == SetItem(r0, k_pitch_uid, pitch_uid(game_pk, play, ev_idx))
        r2 == Update(r1, flatten_dict(OrEmptyDict(Get(ev, W("details"), None)), <<>>))
        r3 == Update(r2, flatten_dict(OrEmptyDict(Get(ev, W("pitchData"), None)), <<>>))
    IN  Update(r3, flatten_dict(OrEmptyDict(Get(ev, W("hitData"), None)), <<>>))

\* The inner loop over enumerate(play.get("playEvents", [])), from the e-th
\* event (1-based here; ev_idx is e - 1)
RECURSIVE EventRowsFrom(_, _, _, _)
EventRowsFrom(game_pk, ctx, play, e) ==
    LET events == Get(play, W("playEvents"), Arr(<<>>))
    IN  IF e > Len(events.v) THEN <<>>
        ELSE (IF is_pitch(events.v[e])
                 THEN <<event_row(game_pk, ctx, play, events.v[e], e - 1)>>
                 ELSE <<>>)
             \o EventRowsFrom(game_pk, ctx, play, e + 1)

\* The outer loop over enumerate(plays): the rows of the plays lo..hi (1-based
\* here; play_idx is p - 1), in order.  The range is halved rather than walked
\* so that a game of a hundred plays stays within the evaluator's stack.
RECURSIVE PlayRows(_, _, _, _, _)
PlayRows(game_pk, data, plays, lo, hi) ==
    IF lo > hi THEN <<>>
    ELSE IF lo = hi
        THEN EventRowsFrom(game_pk, base_ctx(game_pk, data, plays.v[lo], lo - 1), plays.v[lo], 1)
    ELSE PlayRows(game_pk, data, plays, lo, (lo + hi) \div 2)
         \o PlayRows(game_pk, data, plays, (lo + hi) \div 2 + 1, hi)

\* rows_from_game(game_pk), given what the HTTP request for the game does:
\* [exc |-> an exception left the function, val |-> the list of rows]
rows_from_game(game_pk, response) ==
    LET feed  == get_game_feed(response)
        data  == feed.val
        plays == safe_get(data, <<W("liveData"), W("plays"), W("allPlays")>>, Arr(<<>>))
    IN  IF feed.exc THEN Raises(<<>>)
        ELSE IF ~Truthy(data) THEN Returns(<<>>)
        ELSE IF ~Truthy(plays) THEN Returns(<<>>)
        ELSE IF \E p \in 1..Len(plays.v) : base_ctx_raises(plays.v[p]) THEN Raises(<<>>)
        ELSE Returns(PlayRows(game_pk, data, plays, 1, Len(plays.v)))

-----------------------------------------------------------------------------
(* normalize_key applied to every key of the bounded alphabet, twice *)

Words == {"pitchData", "details", "call", "code"}

Atoms == Words \cup {U}

\* The strs of exactly n atoms
RECURSIVE StrsOfLen(_)
StrsOfLen(n) ==
    IF n = 0 THEN {<<>>}
    ELSE {x \in {Append(s, a) : s \in StrsOfLen(n - 1), a \in Atoms} : IsStr(x)}

KeysUpTo(len) == UNION {StrsOfLen(n) : n \in 0..len}

Idle == "idle"

NormIdle == nkey = <<>> /\ nres = <<>> /\ nres2 = <<>> /\ npc = Idle
FlatIdle == tree = Idle /\ out = Idle /\ fpc = Idle
RowIdle  == rgame = 0 /\ rdata = Idle /\ rrows = <<>> /\ rpc = Idle
DataIdle == game_pks = <<>> /\ fetched = <<>> /\ all_rows = <<>> /\ df = Idle
            /\ idx = 0 /\ pc = Idle

InitNorm ==
    /\ nkey \in KeysUpTo(MaxKeyLen)
    /\ nres = <<>> /\ nres2 = <<>> /\ npc = "call"
    /\ FlatIdle /\ RowIdle /\ DataIdle

Normalize ==
    /\ npc = "call"
    /\ nres' = normalize_key(nkey)
    /\ npc' = "again"
    /\ UNCHANGED <<nkey, nres2, flatVars, rowVars, dataVars>>

NormalizeAgain ==
    /\ npc = "again"
    /\ nres2' = normalize_key(nres)
    /\ npc' = "done"
    /\ UNCHANGED <<nkey, nres, flatVars, rowVars, dataVars>>

NextNorm == Normalize \/ NormalizeAgain

SpecNorm == InitNorm /\ [][NextNorm]_vars

-----------------------------------------------------------------------------
(* flatten_dict applied to every tree of at most MaxNodes nodes *)

ObjKeys == {<<"details">>, <<"call">>, <<"code">>}

Scalars == {Num(1), Str("B")}

\* The values of exactly n nodes, the item lists and the pair lists (distinct
\* keys, any insertion order) whose values have n nodes in all.
RECURSIVE ValsOf(_), ListsOf(_), PairsOf(_)
ValsOf(n) ==
    IF n < 1 THEN {}
    ELSE (IF n = 1 THEN Scalars ELSE {})
         \cup {Obj(ps) : ps \in PairsOf(n - 1)}
         \cup {Arr(xs) : xs \in ListsOf(n - 1)}

ListsOf(n) ==
    IF n = 0 THEN {<<>>}
    ELSE UNION {{<<x>> \o rest : x \in ValsOf(m), rest \in ListsOf(n - m)} : m \in 1..n}

PairsOf(n) ==
    IF n = 0 THEN {<<>>}
    ELSE UNION {{ps \in {<<(<<k, x>>)>> \o rest : k \in ObjKeys, x \in ValsOf(m),
                                                 rest \in PairsOf(n - m)} :
                    \A j \in 2..Len(ps) : ps[j][1] # ps[1][1]} : m \in 1..n}

TreesUpTo(nodes) == {Obj(ps) : ps \in UNION {PairsOf(n) : n \in 0..(nodes - 1)}}

InitFlat ==
    /\ tree \in TreesUpTo(MaxNodes)
    /\ out = Idle /\ fpc = "call"
    /\ NormIdle /\ RowIdle /\ DataIdle

Flatten ==
    /\ fpc = "call"
    /\ out' = flatten_dict(tree, <<>>)
    /\ fpc' = "done"
    /\ UNCHANGED <<tree, normVars, rowVars, dataVars>>

NextFlat == Flatten

SpecFlat == InitFlat /\ [][NextFlat]_vars

-----------------------------------------------------------------------------
(* Game feeds: the payloads of the live-feed endpoint *)

Pair(k, x) == <<W(k), x>>

GameData(date) ==
    Obj(<<Pair("datetime", Obj(<<Pair("officialDate", Num(date))>>)),
          Pair("venue", Obj(<<Pair("name", Str("Salt River Fields"))>>)),
          Pair("teams", Obj(<<Pair("home", Obj(<<Pair("name", Str("Salt River Rafters"))>>)),
                              Pair("away", Obj(<<Pair("name", Str("Mesa Solar Sox"))>>))>>))>>)

\* a sub-event that is not a pitch (a mound visit)
EvAction ==
    Obj(<<Pair("isPitch", Bool(FALSE)),
          Pair("details", Obj(<<Pair("description", Str("Mound Visit"))>>))>>)

\* a pitch that is taken
EvPitch ==
    Obj(<<Pair("details", Obj(<<Pair("call", Obj(<<Pair("code", Str("B"))>>))>>)),
          Pair("isPitch", Bool(TRUE)),
          Pair("pitchData", Obj(<<Pair("startSpeed", Num(95)),
                                  Pair("breaks", Obj(<<Pair("spinRate", Num(2200))>>))>>))>>)

\* a pitch that is put in play: the only kind with a hitData block
EvInPlay ==
    Obj(<<Pair("details", Obj(<<Pair("call", Obj(<<Pair("code", Str("X"))>>))>>)),
          Pair("isPitch", Bool(TRUE)),
          Pair("pitchData", Obj(<<Pair("startSpeed", Num(95)),
                                  Pair("breaks", Obj(<<Pair("spinRate", Num(2200))>>))>>)),
          Pair("hitData", Obj(<<Pair("launchSpeed", Num(101))>>))>>)

\* a play with nothing but its sub-events
BarePlay(events) == Obj(<<Pair("playEvents", Arr(events))>>)

FullPlay(atBatIndex, events) ==
    Obj(<<Pair("atBatIndex", Num(atBatIndex)),
          Pair("about", Obj(<<Pair("inning", Num(1)), Pair("isTopInning", Bool(TRUE))>>)),
          Pair("matchup", Obj(<<Pair("batter", Obj(<<Pair("id", Num(7)), Pair("fullName", Str("A Batter"))>>)),
                                Pair("pitcher", Obj(<<Pair("id", Num(9)), Pair("fullName", Str("A Pitcher"))>>))>>)),
          Pair("count", Obj(<<Pair("balls", Num(1)), Pair("strikes", Num(2)), Pair("outs", Num(0))>>)),
          Pair("playEvents", Arr(events))>>)

AtBatIndexes == {0, 1}

LiveData(plays) == Obj(<<Pair("plays", Obj(<<Pair("allPlays", Arr(plays))>>))>>)

\* a feed with no gameData block
BareFeed(plays) == Obj(<<Pair("liveData", LiveData(plays))>>)

Feed(date, plays) == Obj(<<Pair("gameData", GameData(date)), Pair("liveData", LiveData(plays))>>)

\* The shape of a play: <<a, evs>>, a the atBatIndex or -1 for a bare play,
\* evs[e] whether the e-th sub-event is a pitch
PlayShapesOf(m) == {<<a, evs>> : a \in AtBatIndexes \cup {-1}, evs \in [1..m -> BOOLEAN]}

PlayOf(shape) ==
    LET events == [e \in 1..Len(shape[2]) |-> IF shape[2][e] THEN EvPitch ELSE EvAction]
    IN  IF shape[1] < 0 THEN BarePlay(events) ELSE FullPlay(shape[1], events)

PlaysOf(shapes) == [p \in 1..Len(shapes) |-> PlayOf(shapes[p])]

\* The shapes of the lists of exactly p plays that hold n sub-events in all
RECURSIVE PlayListsOf(_, _)
PlayListsOf(p, n) ==
    IF p = 0 THEN (IF n = 0 THEN {<<>>} ELSE {})
    ELSE UNION {{<<shape>> \o rest : shape \in PlayShapesOf(m),
                                     rest \in PlayListsOf(p - 1, n - m)} : m \in 0..n}

PlayListsUpTo(plays, events) == UNION {PlayListsOf(p, n) : p \in 0..plays, n \in 0..events}

\* What the request of one game can do: fail, or return null, an empty object,
\* a feed with no play list, a feed with a play list (with its gameData block,
\* or without it for a single play), or one of two feeds with batted balls.
RowResponseKinds(plays, events) ==
    {<<kind, <<>>>> : kind \in {"raises", "null", "empty", "noplays", "inplay", "inplays"}}
    \cup {<<"feed", shapes>> : shapes \in PlayListsUpTo(plays, events)}
    \cup {<<"barefeed", shapes>> : shapes \in UNION {PlayListsOf(1, n) : n \in 0..events}}

ResponseOf(kind) ==
    CASE kind[1] = "raises"   -> Raises(Null)
      [] kind[1] = "null"     -> Returns(Null)
      [] kind[1] = "empty"    -> Returns(EmptyDict)
      [] kind[1] = "noplays"  -> Returns(Obj(<<Pair("gameData", GameData(1))>>))
      [] kind[1] = "inplay"   -> Returns(Feed(1, <<FullPlay(0, <<EvPitch, EvInPlay>>)>>))
      [] kind[1] = "inplays"  -> Returns(Feed(1, <<FullPlay(0, <<EvInPlay>>),
                                                   BarePlay(<<EvAction, EvInPlay>>)>>))
      [] kind[1] = "barefeed" -> Returns(BareFeed(PlaysOf(kind[2])))
      [] OTHER                -> Returns(Feed(1, PlaysOf(kind[2])))

GameIds == 1..MaxGames

InitRows ==
    /\ rgame = 0 /\ rdata = Idle /\ rrows = <<>> /\ rpc = "call"
    /\ NormIdle /\ FlatIdle /\ DataIdle

\* one call rows_from_game(game_pk)
RowsFromGame ==
    /\ rpc = "call"
    /\ \E game_pk \in {1}, kind \in RowResponseKinds(MaxPlays, MaxEvents) :
          \E r \in {rows_from_game(game_pk, ResponseOf(kind))} :
              /\ rgame' = game_pk
              /\ rdata' = ResponseOf(kind)
              /\ rrows' = r.val
              /\ rpc' = IF r.exc THEN "raised" ELSE "done"
    /\ UNCHANGED <<normVars, flatVars, dataVars>>

NextRows == RowsFromGame

SpecRows == InitRows /\ [][NextRows]_vars

\* Feeds whose context blocks are whole, lack their leaves, are missing, are
\* null or are a string.  A block is built from its variant.
BlockVariants == {"whole", "partial", "absent", "null", "str"}

\* the entry for key k in its parent, by variant: no entry when absent
Block(k, variant, whole, partial) ==
    CASE variant = "whole"   -> <<Pair(k, whole)>>
      [] variant = "partial" -> <<Pair(k, partial)>>
      [] variant = "null"    -> <<Pair(k, Null)>>
      [] variant = "str"     -> <<Pair(k, Str("n/a"))>>
      [] OTHER               -> <<>>

\* the gameData block without the venue name and with teams as a string
GameDataPartial ==
    Obj(<<Pair("datetime", Obj(<<Pair("officialDate", Num(1))>>)),
          Pair("venue", EmptyDict),
          Pair("teams", Str("n/a"))>>)

CtxPlay(about, matchup, count) ==
    Obj(Block("about", about,
              Obj(<<Pair("inning", Num(1)), Pair("isTopInning", Bool(TRUE))>>),
              Obj(<<Pair("inning", Num(1))>>))
        \o Block("matchup", matchup,
                 Obj(<<Pair("batter", Obj(<<Pair("id", Num(7)), Pair("fullName", Str("A Batter"))>>)),
                       Pair("pitcher", Obj(<<Pair("id", Num(9)), Pair("fullName", Str("A Pitcher"))>>))>>),
                 Obj(<<Pair("batter", Obj(<<Pair("id", Num(7))>>)), Pair("pitcher", Str("n/a"))>>))
        \o Block("count", count,
                 Obj(<<Pair("balls", Num(1)), Pair("strikes", Num(2)), Pair("outs", Num(0))>>),
                 Obj(<<Pair("balls", Num(1))>>))
        \o <<Pair("playEvents", Arr(<<EvPitch>>))>>)

\* <<gameData, about, matchup, count, lead>>: the variant of each block and
\* whether a whole play comes before the play built from them
CtxKinds == BlockVariants \X BlockVariants \X BlockVariants \X BlockVariants \X BOOLEAN

CtxResponseOf(kind) ==
    Returns(Obj(Block("gameData", kind[1], GameData(1), GameDataPartial)
                \o <<Pair("liveData",
                          LiveData((IF kind[5] THEN <<FullPlay(0, <<EvPitch>>)>> ELSE <<>>)
                                   \o <<CtxPlay(kind[2], kind[3], kind[4])>>))>>))

\* one call rows_from_game(game_pk) on such a feed
RowsFromGameCtx ==
    /\ rpc = "call"
    /\ \E game_pk \in {1}, kind \in CtxKinds :
          \E r \in {rows_from_game(game_pk, CtxResponseOf(kind))} :
              /\ rgame' = game_pk
              /\ rdata' = CtxResponseOf(kind)
              /\ rrows' = r.val
              /\ rpc' = IF r.exc THEN "raised" ELSE "done"
    /\ UNCHANGED <<normVars, flatVars, dataVars>>

NextCtx == RowsFromGameCtx

SpecCtx == InitRows /\ [][NextCtx]_vars

\* Pitches whose details, pitchData and hitData blocks are missing, null,
\* empty, or hold keys that meet after flattening.  Block b (1 details,
\* 2 pitchData, 3 hitData) holds values that name it, so that a row shows
\* which block a value came from.
MergeVariants == {"absent", "null", "empty", "code", "nested", "zone", "both"}

MergeBlock(k, variant, b) ==
    CASE variant = "null"   -> <<Pair(k, Null)>>
      [] variant = "empty"  -> <<Pair(k, EmptyDict)>>
      [] variant = "code"   -> <<Pair(k, Obj(<<Pair("code", Num(b))>>))>>
      [] variant = "nested" -> <<Pair(k, Obj(<<Pair("breaks", Obj(<<Pair("code", Num(10 + b))>>))>>))>>
      [] variant = "zone"   -> <<Pair(k, Obj(<<Pair("zone", Num(20 + b))>>))>>
      [] variant = "both"   -> <<Pair(k, Obj(<<Pair("zone", Num(20 + b)), Pair("code", Num(b))>>))>>
      [] OTHER              -> <<>>

\* <<details, pitchData, hitData>>: the variant of each block
MergeKinds == MergeVariants \X MergeVariants \X MergeVariants

MergeEvent(kind) ==
    Obj(<<Pair("isPitch", Bool(TRUE))>>
        \o MergeBlock("hitData", kind[3], 3)
        \o MergeBlock("details", kind[1], 1)
        \o MergeBlock("pitchData", kind[2], 2))

MergeResponseOf(kind) == Returns(Feed(1, <<FullPlay(0, <<EvAction, MergeEvent(kind)>>)>>))

\* one call rows_from_game(game_pk) on such a feed
RowsFromGameMerge ==
    /\ rpc = "call"
    /\ \E game_pk \in {1}, kind \in MergeKinds :
          \E r \in {rows_from_game(game_pk, MergeResponseOf(kind))} :
              /\ rgame' = game_pk
              /\ rdata' = MergeResponseOf(kind)
              /\ rrows' = r.val
              /\ rpc' = IF r.exc THEN "raised" ELSE "done"
    /\ UNCHANGED <<normVars, flatVars, dataVars>>

NextMerge == RowsFromGameMerge

SpecMerge == InitRows /\ [][NextMerge]_vars

-----------------------------------------------------------------------------
(* get_afl_data: pl.DataFrame, DataFrame.sort and the loop over the games *)

\* polars reads the column names of a list of dicts from its first
\* infer_schema_length rows; pl.DataFrame(all_rows) leaves it at the default.
N_INFER_DEFAULT == 100

\* pl.DataFrame()
EmptyFrame == [columns |-> {}, rows |-> <<>>]

\* pl.DataFrame(data) for a list of dicts: the columns are the keys seen in
\* the first N_INFER_DEFAULT dicts; every row gets each column, null where the
\* dict has no such key; a key first seen further down is not a column.
DataFrame(data) ==
    LET seen    == IF Len(data) < N_INFER_DEFAULT THEN Len(data) ELSE N_INFER_DEFAULT
        columns == UNION {DOMAIN data[i] : i \in 1..seen}
    IN  [columns |-> columns,
         rows    |-> SubSeq([i \in 1..Len(data) |->
                               [c \in columns |-> IF c \in DOMAIN data[i] THEN data[i][c] ELSE Null]],
                            1, Len(data))]

\* The sort key with the game id ahead of the date.
sort_cols_idfirst(frame) ==
    SelectSeq(<<k_game_id, k_game_date, k_at_bat_index, k_event_idx>>,
              LAMBDA c : c \in frame.columns)

\* [c for c in ["game_date", "game_id", "at_bat_index", "event_idx"] if c in df.columns]
sort_cols(frame) ==
    SelectSeq(<<k_game_date, k_game_id, k_at_bat_index, k_event_idx>>,
              LAMBDA c : c \in frame.columns)

\* Ascending order of two cells of a sort column, nulls first
CellBefore(a, b) ==
    IF a.t = "null" THEN b.t # "null"
    ELSE b.t # "null" /\ a.v < b.v

\* r is not after q by the columns cols, in priority order
RECURSIVE NotAfter(_, _, _)
NotAfter(r, q, cols) ==
    IF cols = <<>> THEN TRUE
    ELSE IF CellBefore(r[Head(cols)], q[Head(cols)]) THEN TRUE
    ELSE IF CellBefore(q[Head(cols)], r[Head(cols)]) THEN FALSE
    ELSE NotAfter(r, q, Tail(cols))

\* The rows in ascending order, rows of equal key in their order of arrival:
\* row i goes to the place after the rows that precede it.
InOrder(rows, cols) ==
    LET n     == Len(rows)
        place == SubSeq([i \in 1..n |->
                            1 + Cardinality({j \in 1..n :
                                    /\ j # i
                                    /\ NotAfter(rows[j], rows[i], cols)
                                    /\ (j < i \/ ~NotAfter(rows[i], rows[j], cols))})], 1, n)
    IN  SubSeq([k \in 1..n |-> rows[CHOOSE i \in 1..n : place[i] = k]], 1, n)

Arrangements(s) ==
    {[i \in 1..Len(s) |-> s[f[i]]] :
        f \in {g \in [1..Len(s) -> 1..Len(s)] : \A i, j \in 1..Len(s) : g[i] = g[j] => i = j}}

\* Every arrangement of the part lo..hi of an ascending sequence that keeps it
\* ascending: the rows of equal key in any order.  lo..hi is made of whole
\* runs of equal key; a..b is the run of the middle row.
RECURSIVE TieOrders(_, _, _, _)
TieOrders(s, lo, hi, cols) ==
    IF lo > hi THEN {<<>>}
    ELSE LET mid == (lo + hi) \div 2
             run == {i \in lo..hi : NotAfter(s[i], s[mid], cols) /\ NotAfter(s[mid], s[i], cols)}
             a   == CHOOSE i \in run : \A j \in run : i <= j
             b   == CHOOSE i \in run : \A j \in run : j <= i
         IN  {x \o y \o z : x \in TieOrders(s, lo, a - 1, cols),
                            y \in Arrangements(SubSeq(s, a, b)),
                            z \in TieOrders(s, b + 1, hi, cols)}

\* df.sort(cols): maintain_order is left False, so rows of equal key may come
\* out in any order.
SortedFrames(frame, cols) ==
    {[columns |-> frame.columns, rows |-> rows] :
        rows \in TieOrders(InOrder(frame.rows, cols), 1, Len(frame.rows), cols)}

\* The frames get_afl_data can return for the collected rows (lines 134-142)
Assembled(rows) ==
    IF rows = <<>> THEN {EmptyFrame}
    ELSE LET frame == DataFrame(rows)
         IN  IF sort_cols(frame) # <<>> THEN SortedFrames(frame, sort_cols(frame)) ELSE {frame}

\* The schedules get_afl_games can return: the games of the day in any order
Schedules ==
    {s \in UNION {[1..n -> GameIds] : n \in 0..MaxGames} :
        \A i, j \in 1..Len(s) : s[i] = s[j] => i = j}

\* What the request of one game can do, for the games of a day
DayResponses ==
    {Raises(Null),
     Returns(Obj(<<Pair("gameData", GameData(1))>>)),
     Returns(Feed(1, <<FullPlay(0, <<EvAction>>)>>)),
     Returns(Feed(1, <<FullPlay(0, <<EvPitch>>)>>)),
     Returns(Feed(1, <<FullPlay(1, <<EvAction, EvInPlay>>), FullPlay(0, <<EvPitch, EvPitch>>)>>)),
     Returns(Feed(2, <<FullPlay(0, <<EvPitch>>), FullPlay(1, <<EvInPlay>>)>>)),
     Returns(BareFeed(<<BarePlay(<<EvPitch>>), BarePlay(<<EvPitch, EvInPlay>>)>>))}

\* a game of n plays of one pitch each, the last of them put in play
LongGame(n) == [p \in 1..n |-> FullPlay(p - 1, <<IF p = n THEN EvInPlay ELSE EvPitch>>)]

\* ... for days with more than N_INFER_DEFAULT pitches
LongDayResponses ==
    {Raises(Null),
     Returns(Feed(1, <<FullPlay(0, <<EvPitch>>)>>)),
     Returns(Feed(1, <<FullPlay(0, <<EvInPlay>>)>>)),
     Returns(Feed(1, LongGame(N_INFER_DEFAULT))),
     Returns(Feed(1, LongGame(N_INFER_DEFAULT + 1)))}

InitData ==
    /\ game_pks = <<>> /\ fetched = <<>> /\ all_rows = <<>> /\ df = Idle
    /\ idx = 0 /\ pc = "schedule"
    /\ NormIdle /\ FlatIdle /\ RowIdle

\* game_pks = get_afl_games(date_str); "if not game_pks: return pl.DataFrame()"
GetAflGames ==
    /\ pc = "schedule"
    /\ \E s \in Schedules :
          /\ game_pks' = s
          /\ IF s = <<>>
                THEN df' = EmptyFrame /\ pc' = "done" /\ idx' = idx
                ELSE df' = df /\ pc' = "games" /\ idx' = 1
    /\ UNCHANGED <<fetched, all_rows, normVars, flatVars, rowVars>>

\* get_afl_games raises (the schedule request is not guarded): so does get_afl_data
GetAflGamesRaises ==
    /\ pc = "schedule"
    /\ pc' = "schedule_raised"
    /\ UNCHANGED <<game_pks, fetched, all_rows, df, idx, normVars, flatVars, rowVars>>

\* One turn of "for pk in game_pks": rows = rows_from_game(pk); all_rows.extend(rows)
NextGame(responses) ==
    /\ pc = "games"
    /\ idx <= Len(game_pks)
    /\ \E response \in responses :
          \E r \in {rows_from_game(game_pks[idx], response)} :
              /\ fetched' = Append(fetched, response)
              /\ IF r.exc
                    THEN pc' = "raised" /\ all_rows' = all_rows /\ idx' = idx
                    ELSE pc' = pc /\ all_rows' = all_rows \o r.val /\ idx' = idx + 1
    /\ UNCHANGED <<game_pks, df, normVars, flatVars, rowVars>>

\* After the loop: the empty frame, or pl.DataFrame(all_rows) sorted
Assemble ==
    /\ pc = "games"
    /\ idx > Len(game_pks)
    /\ df' \in Assembled(all_rows)
    /\ pc' = "done"
    /\ UNCHANGED <<game_pks, fetched, all_rows, idx, normVars, flatVars, rowVars>>

Init == InitData

Next == GetAflGames \/ GetAflGamesRaises \/ NextGame(DayResponses) \/ Assemble

Spec == Init /\ [][Next]_vars

NextLong == GetAflGames \/ GetAflGamesRaises \/ NextGame(LongDayResponses) \/ Assemble

SpecLong == Init /\ [][NextLong]_vars

\* normalize_key and flatten_dict side by side, for statements about flat keys
InitKeys == InitNorm \/ InitFlat

NextKeys == NextNorm \/ NextFlat

SpecKeys == InitKeys /\ [][NextKeys]_vars

-----------------------------------------------------------------------------
(* Properties of normalize_key and flatten_dict *)

HasSegment(k, tok) == \E i \in 1..Len(Split(k)) : Split(k)[i] = tok

HasReserved(k) == \E i \in 1..Len(Split(k)) : Split(k)[i] \in STRIP_TOKENS

HasKept(k) == \E i \in 1..Len(Split(k)) : Kept(Split(k)[i])

\* C4 as stated: a key with the segment "pitchData" normalizes to a key with
\* no reserved segment, and no flat key emitted by flatten_dict has a reserved
\* segment.
C4_NoReservedSegment ==
    /\ (npc \in {"again", "done"} /\ HasSegment(nkey, <<"pitchData">>))
           => ~HasReserved(nres)
    /\ fpc = "done" => \A k \in DOMAIN out : ~HasReserved(k)

\* C4 amended: a key with the segment "pitchData" and at least one segment that
\* is neither reserved nor empty normalizes to a key with no reserved segment;
\* a flat key emitted by flatten_dict has a reserved segment only when all its
\* segments are reserved or empty (the fallback to the unstripped key).
C4_NoReservedUnlessFallback ==
    /\ (npc \in {"again", "done"} /\ HasSegment(nkey, <<"pitchData">>) /\ HasKept(nkey))
           => ~HasReserved(nres)
    /\ fpc = "done" => \A k \in DOMAIN out : HasReserved(k) => ~HasKept(k)

C4_Witness ==
    /\ npc = "done"
    /\ HasSegment(nkey, <<"pitchData">>)
    /\ HasKept(nkey)
    /\ nres # nkey

\* C5: normalize_key(normalize_key(k)) = normalize_key(k) for every key k.
C5_Idempotent == npc = "done" => nres2 = nres

\* a key with an empty segment, a stripped segment and a single underscore
\* next to the separator, normalized twice
C5_Witness ==
    /\ npc = "done"
    /\ nres # nkey
    /\ HasSegment(nkey, <<>>)
    /\ HasReserved(nkey)
    /\ \E i \in 1..Len(Split(nkey)) : Split(nkey)[i] # <<>> /\ Split(nkey)[i][1] = U

\* C6: when no segment is retained the original key comes back unchanged,
\* otherwise the result splits into exactly the retained segments, in order.
C6_FallbackOrRetained ==
    npc \in {"again", "done"} =>
        LET retained == SelectSeq(Split(nkey), Kept)
        IN  /\ retained = <<>> => nres = nkey
            /\ retained # <<>> => Split(nres) = retained
            /\ nkey = <<"pitchData">> => nres = <<"pitchData">>
            /\ nkey = <<"call", U, U, "code">> => nres = nkey

C6_Witness ==
    /\ npc = "done"
    /\ Len(nkey) > 1
    /\ SelectSeq(Split(nkey), Kept) = <<>>
    /\ nres = nkey

\* The scalar leaves of a tree, each with its path: the object keys and
\* 0-based array indices from the root, joined by the separator.
RECURSIVE LeafPaths(_, _)
LeafPaths(x, segs) ==
    IF x.t = "obj"
        THEN UNION {LeafPaths(x.v[j][2], Append(segs, x.v[j][1])) : j \in 1..Len(x.v)}
    ELSE IF x.t = "arr"
        THEN UNION {LeafPaths(x.v[i], Append(segs, FormatInt(i - 1))) : i \in 1..Len(x.v)}
    ELSE {<<Join(segs), x>>}

DistinctLeafKeys(leaves) ==
    \A a, b \in leaves : a # b => normalize_key(a[1]) # normalize_key(b[1])

\* C7: for a tree whose leaf paths normalize to distinct keys, flatten_dict
\* returns exactly one entry per scalar leaf, keyed by normalize_key of the
\* leaf's path and holding the leaf's value.
C7_OneEntryPerLeaf ==
    fpc = "done" =>
        LET leaves == LeafPaths(tree, <<>>)
        IN  DistinctLeafKeys(leaves) =>
                /\ DOMAIN out = {normalize_key(l[1]) : l \in leaves}
                /\ \A l \in leaves : out[normalize_key(l[1])] = l[2]

\* string, number, boolean or null
IsScalar(x) == x.t \in {"null", "bool", "num", "str"}

\* C11: for any input, arrays directly inside arrays included, every value of
\* the mapping flatten_dict returns is a scalar, never an object or an array.
C11_ScalarValues ==
    fpc = "done" => \A k \in DOMAIN out : IsScalar(out[k])

-----------------------------------------------------------------------------
(* Properties of rows_from_game *)

\* The play list of the payload the request returned (empty when it failed or
\* returned no play list)
PlaysIn(response) ==
    IF response.exc THEN <<>>
    ELSE LET d == response.val
         IN  IF d.t = "obj" /\ HasKey(d, W("liveData"))
                /\ HasKey(Item(d, W("liveData")), W("plays"))
                /\ HasKey(Item(Item(d, W("liveData")), W("plays")), W("allPlays"))
             THEN Item(Item(Item(d, W("liveData")), W("plays")), W("allPlays")).v
             ELSE <<>>

EventsIn(play) == IF HasKey(play, W("playEvents")) THEN Item(play, W("playEvents")).v ELSE <<>>

Flagged(ev) == HasKey(ev, W("isPitch")) /\ Item(ev, W("isPitch")) = Bool(TRUE)

\* <<play index, sub-event index>> (0-based) of every sub-event whose pitch flag is true
PitchPositions(response) ==
    LET plays == PlaysIn(response)
        all   == UNION {{<<p - 1, e - 1>> : e \in 1..Len(EventsIn(plays[p]))} : p \in 1..Len(plays)}
    IN  {pos \in all : Flagged(EventsIn(plays[pos[1] + 1])[pos[2] + 1])}

PositionOf(row) == <<row[k_play_idx].v, row[k_event_idx].v>>

LexBefore(a, b) == a[1] < b[1] \/ (a[1] = b[1] /\ a[2] < b[2])

\* C1: one row per sub-event whose pitch flag is true and none for any other,
\* in ascending play index, then ascending sub-event index.
C1_OneRowPerPitch ==
    rpc # "call" =>
        /\ rpc = "done"
        /\ Len(rrows) = Cardinality(PitchPositions(rdata))
        /\ {PositionOf(rrows[n]) : n \in 1..Len(rrows)} = PitchPositions(rdata)
        /\ \A n \in 1..(Len(rrows) - 1) : LexBefore(PositionOf(rrows[n]), PositionOf(rrows[n + 1]))

\* two plays with a pitch each, and sub-events that are not pitches
C1_Witness ==
    /\ rpc = "done"
    /\ Len(rrows) >= 2
    /\ rrows[1][k_play_idx] # rrows[2][k_play_idx]
    /\ \E p \in 1..Len(PlaysIn(rdata)) :
          \E e \in 1..Len(EventsIn(PlaysIn(rdata)[p])) : ~Flagged(EventsIn(PlaysIn(rdata)[p])[e])

\* C2: any two distinct rows of one rows_from_game call differ in pitch_uid.
C2_UniquePitchUid ==
    rpc = "done" =>
        \A m, n \in 1..Len(rrows) : m # n => rrows[m][k_pitch_uid] # rrows[n][k_pitch_uid]

\* The lookup path of each context field of a row: from the payload for the
\* game-level fields, from the play for the others
GamePaths ==
    {<<k_game_date, <<W("gameData"), W("datetime"), W("officialDate")>>>>,
     <<k_venue_name, <<W("gameData"), W("venue"), W("name")>>>>,
     <<k_home_team, <<W("gameData"), W("teams"), W("home"), W("name")>>>>,
     <<k_away_team, <<W("gameData"), W("teams"), W("away"), W("name")>>>>}

PlayPaths ==
    {<<k_inning, <<W("about"), W("inning")>>>>,
     <<k_is_top_inning, <<W("about"), W("isTopInning")>>>>,
     <<k_batter_id, <<W("matchup"), W("batter"), W("id")>>>>,
     <<k_batter_name, <<W("matchup"), W("batter"), W("fullName")>>>>,
     <<k_pitcher_id, <<W("matchup"), W("pitcher"), W("id")>>>>,
     <<k_pitcher_name, <<W("matchup"), W("pitcher"), W("fullName")>>>>,
     <<k_balls, <<W("count"), W("balls")>>>>,
     <<k_strikes, <<W("count"), W("strikes")>>>>,
     <<k_outs, <<W("count"), W("outs")>>>>}

\* every segment of the path is there and each parent on the way is a mapping
RECURSIVE Resolves(_, _)
Resolves(x, path) ==
    \/ path = <<>>
    \/ /\ x.t = "obj"
       /\ \E j \in 1..Len(x.v) : x.v[j][1] = Head(path) /\ Resolves(x.v[j][2], Tail(path))

\* the context fields of the rows that cannot be looked up are null
UnresolvedAreNull ==
    \A n \in 1..Len(rrows) :
        /\ \A f \in GamePaths : ~Resolves(rdata.val, f[2]) => rrows[n][f[1]] = Null
        /\ \A f \in PlayPaths :
              ~Resolves(PlaysIn(rdata)[rrows[n][k_play_idx].v + 1], f[2]) => rrows[n][f[1]] = Null

\* C12: each context field whose lookup path has an absent segment or a parent
\* that is not a mapping is null in the row, and rows_from_game does not raise
\* because of it.
C12_ContextDegradesToNull ==
    rpc # "call" => (rpc = "done" /\ UnresolvedAreNull)

\* the sub-event a row was made from
EventOf(row) == EventsIn(PlaysIn(rdata)[row[k_play_idx].v + 1])[row[k_event_idx].v + 1]

\* the flattened block of a sub-event; a block that is absent or null is empty
Flattened(ev, block) ==
    IF HasKey(ev, W(block)) /\ Item(ev, W(block)).t = "obj"
        THEN flatten_dict(Item(ev, W(block)), <<>>)
        ELSE NoEntries

ContextKeys ==
    {k_game_id, k_game_date, k_venue_name, k_home_team, k_away_team, k_at_bat_index,
     k_play_idx, k_inning, k_is_top_inning, k_batter_id, k_batter_name, k_pitcher_id,
     k_pitcher_name, k_balls, k_strikes, k_outs, k_event_idx, k_pitch_uid}

\* C13: in every row the flattened blocks are merged in the order details,
\* pitchData, hitData, an absent block counting as empty; for a key that two
\* blocks yield the row holds the value of the later block.
C13_LaterBlockWins ==
    rpc = "done" =>
        \A n \in 1..Len(rrows) :
            LET details   == Flattened(EventOf(rrows[n]), "details")
                pitchData == Flattened(EventOf(rrows[n]), "pitchData")
                hitData   == Flattened(EventOf(rrows[n]), "hitData")
            IN  /\ DOMAIN rrows[n] =
                       ContextKeys \cup DOMAIN details \cup DOMAIN pitchData \cup DOMAIN hitData
                /\ \A k \in DOMAIN hitData : rrows[n][k] = hitData[k]
                /\ \A k \in DOMAIN pitchData \ DOMAIN hitData : rrows[n][k] = pitchData[k]
                /\ \A k \in DOMAIN details \ (DOMAIN pitchData \cup DOMAIN hitData) :
                       rrows[n][k] = details[k]

\* a row whose three blocks all yield "code": it holds hitData's value, which
\* is not the one of details
C13_Witness ==
    /\ rpc = "done"
    /\ Len(rrows) = 1
    /\ W("code") \in DOMAIN Flattened(EventOf(rrows[1]), "details")
    /\ W("code") \in DOMAIN Flattened(EventOf(rrows[1]), "pitchData")
    /\ W("code") \in DOMAIN Flattened(EventOf(rrows[1]), "hitData")
    /\ Flattened(EventOf(rrows[1]), "details")[W("code")] # rrows[1][W("code")]
    /\ Flattened(EventOf(rrows[1]), "hitData")[W("code")] = rrows[1][W("code")]

-----------------------------------------------------------------------------
(* Properties of get_afl_data *)

\* <<game id, <<play index, sub-event index>>>> of every pitch of the games
\* fetched so far
PitchesFetched ==
    UNION {{<<game_pks[i], pos>> : pos \in PitchPositions(fetched[i])} : i \in 1..Len(fetched)}

PitchOf(row) == <<row[k_game_id].v, <<row[k_play_idx].v, row[k_event_idx].v>>>>

\* C3: a failed fetch counts as zero rows for that game only: get_afl_data does
\* not raise, goes on to every later game, and its dataset holds the rows of
\* every game whose fetch succeeded.
C3_FailedFetchIsolated ==
    /\ pc # "raised"
    /\ pc = "done" =>
          /\ Len(fetched) = Len(game_pks)
          /\ Len(df.rows) = Cardinality(PitchesFetched)
          /\ {PitchOf(df.rows[j]) : j \in 1..Len(df.rows)} = PitchesFetched

\* a failed fetch, then a game with pitches
C3_Witness ==
    /\ pc = "done"
    /\ Len(df.rows) > 0
    /\ \E i, j \in 1..Len(fetched) : i < j /\ fetched[i].exc /\ PitchPositions(fetched[j]) # {}

\* C8: the columns of the table are the union of the keys of all collected
\* rows, and every row has every column, null where it lacked the key.
C8_ColumnUnion ==
    (pc = "done" /\ all_rows # <<>>) =>
        /\ df.columns = UNION {DOMAIN all_rows[i] : i \in 1..Len(all_rows)}
        /\ \A j \in 1..Len(df.rows) :
              /\ DOMAIN df.rows[j] = df.columns
              /\ \E i \in 1..Len(all_rows) :
                    \A c \in df.columns :
                        df.rows[j][c] = IF c \in DOMAIN all_rows[i] THEN all_rows[i][c] ELSE Null

\* The cells of a row in the sort columns that are columns of the table
SortKey(row, columns) ==
    LET present == SelectSeq(<<k_game_date, k_game_id, k_at_bat_index, k_event_idx>>,
                             LAMBDA c : c \in columns)
    IN  [n \in 1..Len(present) |-> row[present[n]]]

CellLess(a, b) == (a = Null /\ b # Null) \/ (a # Null /\ b # Null /\ a.v < b.v)

\* key a is not after key b: they are equal, or a is less where they first differ
Ascending(a, b) ==
    LET differ == {n \in 1..Len(a) : a[n] # b[n]}
    IN  differ = {} \/ CellLess(a[CHOOSE n \in differ : \A m \in differ : n <= m],
                                b[CHOOSE n \in differ : \A m \in differ : n <= m])

\* C9: the dataset is sorted ascending by those of (game_date, game_id,
\* at_bat_index, event_idx) that are columns, in that priority order.
C9_Sorted ==
    pc = "done" =>
        \A j \in 1..(Len(df.rows) - 1) :
            Ascending(SortKey(df.rows[j], df.columns), SortKey(df.rows[j + 1], df.columns))

\* the rows were collected out of order
C9_Witness ==
    /\ pc = "done"
    /\ Len(df.rows) >= 2
    /\ \E j \in 1..(Len(all_rows) - 1) :
          ~Ascending(SortKey(all_rows[j], df.columns), SortKey(all_rows[j + 1], df.columns))

\* C10: with no game listed, or with every listed game yielding zero rows (a
\* failed fetch, no play list, no sub-event flagged as a pitch), get_afl_data
\* returns the empty dataset and does not raise.
C10_EmptyDataset ==
    (pc \in {"done", "raised"} /\ \A i \in 1..Len(fetched) : PitchPositions(fetched[i]) = {})
        => (pc = "done" /\ df = EmptyFrame)

\* two games listed: a failed fetch and a game without pitches
C10_Witness ==
    /\ pc = "done"
    /\ df = EmptyFrame
    /\ Len(game_pks) >= 2
    /\ \E i, j \in 1..Len(fetched) : fetched[i].exc /\ ~fetched[j].exc

====
